---- MODULE Spec2Model ----
(***************************************************************************)
(* A model of main.py: the schedule bot.  Two flat files (schedule.json,   *)
(* subscribers.json), two command handlers (/start, /today), one cron job  *)
(* (08:00 Asia/Baku) that fans the day's message out to the subscribers.   *)
(*                                                                         *)
(* Text is a sequence of one-character strings.  The module is ASCII, so   *)
(* the Cyrillic literals of main.py are written as single transliterated   *)
(* tokens ("Segodnya " for the header word, "EM_DASH" for the dash of      *)
(* line 82, "Net zanyatij." for the text of line 72).                      *)
(***************************************************************************)
EXTENDS Integers, Sequences, FiniteSets, TLC

VARIABLES
    subsFile,     \* subscribers.json: [kind, ids]
    schedule,     \* schedule.json: a function from Russian day names to text
    day,          \* days elapsed on the Asia/Baku calendar (day 0 is a Monday)
    phase,        \* "before" / "after" today's 08:00 instant
    scheduler,    \* "none" until post_init has started the AsyncIOScheduler
    nextRun,      \* the cron job's next_run_time, as the day of that 08:00
    jobPc,        \* send_schedule_job: "idle", "sending", "done", "crashed"
    message,      \* send_schedule_job's local `message`
    subscribers,  \* send_schedule_job's local `subscribers`
    pending,      \* members of `subscribers` the for loop has not reached
    attempts,     \* send_message calls of the current run, per chat
    logged,       \* chats with a logger.error line in the current run
    delivered,    \* text each chat received in the current run
    jobDay,       \* day on which the current run built its message
    todayReply,   \* the last /today: [day, text, ok]
    lastStart,    \* the last /start: [chat, before] (file before the command)
    everStarted,  \* chats that completed a /start (or were on file at boot)
    atFire,       \* [file, started] as they were when the current run began
    coverFrom,    \* first day whose 08:00 falls after post_init
    firedToday,   \* runs of send_schedule_job begun on the current day
    fmtOut        \* formatter output (formatter specification only)

vars == << subsFile, schedule, day, phase, scheduler, nextRun, jobPc, message,
           subscribers, pending, attempts, logged, delivered, jobDay,
           todayReply, lastStart, everStarted, atFire, coverFrom, firedToday,
           fmtOut >>

-----------------------------------------------------------------------------
(* Bounds *)

NChats == 2
MaxDay == 1
MaxLen == 8
ShortLen == 2

Chats == 1 .. NChats

(* The calendar *)

DaysPerWeek == 7

-----------------------------------------------------------------------------
(* Text helpers: what str.strip, the `in` test and str.split compute *)

Alphabet == {"a", " ", "-", ","}

NoText == << "NONE" >>

IsSpace(ch) == ch \in {" ", "\t", "\n"}

RECURSIVE LStrip(_)
LStrip(s) ==
    IF s # << >> /\ IsSpace(Head(s)) THEN LStrip(Tail(s)) ELSE s

RECURSIVE RStrip(_)
RStrip(s) ==
    IF s # << >> /\ IsSpace(s[Len(s)]) THEN RStrip(SubSeq(s, 1, Len(s) - 1))
    ELSE s

Strip(s) == RStrip(LStrip(s))

\* str.find: the first index at which sep occurs in s, 0 when there is none
RECURSIVE Find(_, _, _)
Find(s, sep, from) ==
    IF from + Len(sep) - 1 > Len(s) THEN 0
    ELSE IF SubSeq(s, from, from + Len(sep) - 1) = sep THEN from
    ELSE Find(s, sep, from + 1)

Contains(s, sep) == Find(s, sep, 1) # 0

\* str.split(sep): left to right, matches do not overlap
RECURSIVE Split(_, _)
Split(s, sep) ==
    LET i == Find(s, sep, 1)
    IN  IF i = 0 THEN << s >>
        ELSE << SubSeq(s, 1, i - 1) >> \o
             Split(SubSeq(s, i + Len(sep), Len(s)), sep)

Comma == << "," >>
Dash == << " ", "-", " " >>
EmDash == << " ", "EM_DASH", " " >>
Newline == << "\n" >>

-----------------------------------------------------------------------------
(* Calendar and DAYS_MAPPING *)

Weekday(d) == d % DaysPerWeek

DayNameEn(d) ==
    << "Monday", "Tuesday", "Wednesday", "Thursday", "Friday", "Saturday",
       "Sunday" >>[Weekday(d) + 1]

DAYS_MAPPING ==
    [ Monday |-> "Ponedelnik", Tuesday |-> "Vtornik", Wednesday |-> "Sreda",
      Thursday |-> "Chetverg", Friday |-> "Pyatnitsa", Saturday |-> "Subbota",
      Sunday |-> "Voskresenye" ]

Header(ru) == << "Segodnya ", ru, ":", "\n" >>

-----------------------------------------------------------------------------
(* get_schedule_message_for_today *)

\* as FormatEntry, but swapping whenever the split gives two parts or more
FormatEntrySwapAny(entry) ==
    IF Contains(entry, Dash)
    THEN LET parts == Split(entry, Dash)
         IN  parts[2] \o EmDash \o parts[1] \o Newline
    ELSE entry \o Newline

FormatEntry(entry) ==
    IF Contains(entry, Dash)
    THEN LET parts == Split(entry, Dash)
         IN  IF Len(parts) = 2
             THEN parts[2] \o EmDash \o parts[1] \o Newline
             ELSE entry \o Newline
    ELSE entry \o Newline

RECURSIVE FormatEntries(_)
FormatEntries(entries) ==
    IF entries = << >> THEN << >>
    ELSE FormatEntry(Head(entries)) \o FormatEntries(Tail(entries))

StripAll(raw) == [ i \in 1 .. Len(raw) |-> Strip(raw[i]) ]

get_schedule_message_for_today(d, sched) ==
    LET day_name_en == DayNameEn(d)
    IN  IF day_name_en \notin DOMAIN DAYS_MAPPING
        THEN << "Error: Could not map day ", day_name_en, " to Russian." >>
        ELSE LET day_name_ru == DAYS_MAPPING[day_name_en]
             IN  IF day_name_ru \notin DOMAIN sched \/ sched[day_name_ru] = << >>
                 THEN Header(day_name_ru) \o << "Net zanyatij." >>
                 ELSE Header(day_name_ru) \o
                      FormatEntries(StripAll(Split(sched[day_name_ru], Comma)))


-----------------------------------------------------------------------------
(* subscribers.json *)

Range(s) == { s[i] : i \in 1 .. Len(s) }

\* the orders in which list(subscribers) may enumerate a set
Orders(S) == { o \in [1 .. Cardinality(S) -> S] : Range(o) = S }

MissingFile == [kind |-> "missing", ids |-> << >>]
MalformedFile == [kind |-> "malformed", ids |-> << >>]
ListFile(o) == [kind |-> "list", ids |-> o]

\* the identifiers a subscriber file holds: those of its JSON list
FileIds(f) == IF f.kind = "list" THEN Range(f.ids) ELSE {}

\* as load_subscribers, without the except clause of line 49
load_subscribers_strict(f) ==
    IF f.kind = "missing" THEN [raised |-> FALSE, value |-> {}]
    ELSE IF f.kind = "list" THEN [raised |-> FALSE, value |-> Range(f.ids)]
    ELSE [raised |-> TRUE, value |-> {}]

load_subscribers(f) ==
    IF f.kind = "missing" THEN [raised |-> FALSE, value |-> {}]
    ELSE IF f.kind = "list" THEN [raised |-> FALSE, value |-> Range(f.ids)]
    ELSE [raised |-> FALSE, value |-> {}]

\* as save_subscriber, but dumping the new identifier alone
save_subscriber_overwrite(f, chat_id) ==
    LET loaded == load_subscribers(f)
    IN  IF loaded.raised THEN {f}
        ELSE IF chat_id \notin loaded.value
             THEN { ListFile(<< chat_id >>) }
             ELSE {f}

\* as save_subscriber, but appending without the membership test of line 54
save_subscriber_append(f, chat_id) ==
    LET loaded == load_subscribers(f)
    IN  IF loaded.raised THEN {f}
        ELSE { ListFile(Append(IF f.kind = "list" THEN f.ids ELSE << >>,
                               chat_id)) }

\* the files save_subscriber may leave behind
save_subscriber(f, chat_id) ==
    LET loaded == load_subscribers(f)
    IN  IF loaded.raised THEN {f}
        ELSE IF chat_id \notin loaded.value
             THEN { ListFile(o) : o \in Orders(loaded.value \cup {chat_id}) }
             ELSE {f}

-----------------------------------------------------------------------------
(* schedule.json as deployed: one of two sample weeks *)

SampleSchedules ==
    { [ Ponedelnik |-> << "a", " ", "-", " ", "-", ",", " ", "a" >>,
        Vtornik    |-> << >> ],
      [ Ponedelnik |-> << "a", " ", "-", " ", "a", " ", "-", " ", "a" >>,
        Vtornik    |-> << "-", " ", "-", " ", "a" >>,
        Sreda      |-> << "a" >> ] }

-----------------------------------------------------------------------------
(* The state after construction (before run_polling calls post_init) *)

NoReply == [day |-> -1, text |-> NoText, ok |-> FALSE]
NoStart == [chat |-> 0, before |-> MissingFile]

InitFiles ==
    {MissingFile, MalformedFile} \cup
    UNION { { ListFile(o) : o \in Orders(S) } : S \in SUBSET Chats }

JobIdle ==
    /\ jobPc = "idle"
    /\ message = NoText
    /\ subscribers = {}
    /\ pending = {}
    /\ attempts = [c \in Chats |-> 0]
    /\ logged = {}
    /\ delivered = [c \in Chats |-> NoText]
    /\ jobDay = -1
    /\ atFire = [file |-> MissingFile, started |-> {}]

Init ==
    /\ subsFile \in InitFiles
    /\ schedule \in SampleSchedules
    /\ day = 0
    /\ phase = "before"
    /\ scheduler = "none"
    /\ nextRun = -1
    /\ JobIdle
    /\ todayReply = NoReply
    /\ lastStart = NoStart
    /\ everStarted = FileIds(subsFile)
    /\ coverFrom = -1
    /\ firedToday = 0
    /\ fmtOut = NoText

-----------------------------------------------------------------------------
(* post_init: the scheduler and its one cron job (hour=8, minute=0) *)

\* as CronNextRun, but never today
CronNextRunTomorrow(d, ph) == d + 1

\* the day of the first 08:00 instant strictly after the moment (d, ph)
CronNextRun(d, ph) == IF ph = "before" THEN d ELSE d + 1

clockVars == << day, phase >>
fileVars == << subsFile, schedule >>
jobVars == << jobPc, message, subscribers, pending, attempts, logged,
              delivered, jobDay, atFire >>
cmdVars == << todayReply, lastStart, everStarted >>

post_init ==
    /\ scheduler = "none"
    /\ scheduler' = "started"
    /\ nextRun' = CronNextRun(day, phase)
    /\ coverFrom' = IF phase = "before" THEN day ELSE day + 1
    /\ UNCHANGED << clockVars, fileVars, jobVars, cmdVars, firedToday, fmtOut >>

-----------------------------------------------------------------------------
(* send_schedule_job *)

\* as JobSubscribers, but from the file as it was before the last /start
JobSubscribersStale == load_subscribers(lastStart.before)

\* lines 108-110: the message is built and the file is read when the run begins
JobSubscribers == load_subscribers(subsFile)

JobBegin ==
    LET loaded == JobSubscribers
    IN  /\ message' = get_schedule_message_for_today(day, schedule)
        /\ jobDay' = day
        /\ atFire' = [file |-> subsFile, started |-> everStarted]
        /\ attempts' = [c \in Chats |-> 0]
        /\ logged' = {}
        /\ delivered' = [c \in Chats |-> NoText]
        /\ IF loaded.raised
           THEN /\ jobPc' = "crashed"
                /\ subscribers' = {}
                /\ pending' = {}
           ELSE /\ subscribers' = loaded.value
                /\ pending' = loaded.value
                /\ jobPc' = IF loaded.value = {} THEN "done" ELSE "sending"

\* as JobText, but rebuilt for every recipient
JobTextRebuilt == get_schedule_message_for_today(day, schedule)

\* line 113: the text handed to send_message
JobText == message

\* as JobSend, without the try/except: a failed send ends the run
JobSendNoCatch(c, ok) ==
    /\ jobPc = "sending"
    /\ c \in pending
    /\ attempts' = [attempts EXCEPT ![c] = @ + 1]
    /\ pending' = pending \ {c}
    /\ logged' = logged
    /\ IF ok
       THEN /\ delivered' = [delivered EXCEPT ![c] = message]
            /\ jobPc' = IF pending' = {} THEN "done" ELSE "sending"
       ELSE /\ delivered' = delivered
            /\ jobPc' = "done"
    /\ UNCHANGED << clockVars, fileVars, scheduler, nextRun, message,
                    subscribers, jobDay, atFire, cmdVars, coverFrom,
                    firedToday, fmtOut >>

\* as JobSend, but a chat whose send failed is taken off the file
JobSendDropFailed(c, ok) ==
    /\ jobPc = "sending"
    /\ c \in pending
    /\ attempts' = [attempts EXCEPT ![c] = @ + 1]
    /\ pending' = pending \ {c}
    /\ IF ok
       THEN /\ delivered' = [delivered EXCEPT ![c] = message]
            /\ logged' = logged
            /\ subsFile' = subsFile
       ELSE /\ delivered' = delivered
            /\ logged' = logged \cup {c}
            /\ subsFile' = ListFile(SelectSeq(subsFile.ids, LAMBDA x : x # c))
    /\ jobPc' = IF pending' = {} THEN "done" ELSE "sending"
    /\ UNCHANGED << clockVars, schedule, scheduler, nextRun, message,
                    subscribers, jobDay, atFire, cmdVars, coverFrom,
                    firedToday, fmtOut >>

\* lines 111-115: one iteration of the loop; ok = FALSE is send_message raising
JobSend(c, ok) ==
    /\ jobPc = "sending"
    /\ c \in pending
    /\ attempts' = [attempts EXCEPT ![c] = @ + 1]
    /\ pending' = pending \ {c}
    /\ IF ok
       THEN /\ delivered' = [delivered EXCEPT ![c] = JobText]
            /\ logged' = logged
       ELSE /\ delivered' = delivered
            /\ logged' = logged \cup {c}
    /\ jobPc' = IF pending' = {} THEN "done" ELSE "sending"
    /\ UNCHANGED << clockVars, fileVars, scheduler, nextRun, message,
                    subscribers, jobDay, atFire, cmdVars, coverFrom,
                    firedToday, fmtOut >>

-----------------------------------------------------------------------------
(* The wall clock of Asia/Baku and the cron trigger *)

\* 08:00 arrives and the job is due: the scheduler starts send_schedule_job.
\* A run ends within the day it began (every send has the client's timeout).
CronFire ==
    /\ phase = "before"
    /\ scheduler = "started"
    /\ nextRun = day
    /\ jobPc # "sending"
    /\ phase' = "after"
    /\ nextRun' = CronNextRun(day, "after")
    /\ firedToday' = firedToday + 1
    /\ JobBegin
    /\ UNCHANGED << day, fileVars, scheduler, cmdVars, coverFrom, fmtOut >>

\* 08:00 arrives and no job is due
ClockReaches0800 ==
    /\ phase = "before"
    /\ ~ (scheduler = "started" /\ nextRun = day)
    /\ phase' = "after"
    /\ UNCHANGED << day, fileVars, scheduler, nextRun, jobVars, cmdVars,
                    coverFrom, firedToday, fmtOut >>

Midnight ==
    /\ phase = "after"
    /\ day < MaxDay
    /\ day' = day + 1
    /\ phase' = "before"
    /\ firedToday' = 0
    /\ UNCHANGED << fileVars, scheduler, nextRun, jobVars, cmdVars, coverFrom,
                    fmtOut >>

-----------------------------------------------------------------------------
(* Command handlers *)

start(chat_id) ==
    /\ scheduler = "started"
    /\ subsFile' \in save_subscriber(subsFile, chat_id)
    /\ lastStart' = [chat |-> chat_id, before |-> subsFile]
    /\ everStarted' = everStarted \cup {chat_id}
    /\ UNCHANGED << schedule, clockVars, scheduler, nextRun, jobVars,
                    todayReply, coverFrom, firedToday, fmtOut >>

\* line 103
TodayText == get_schedule_message_for_today(day, schedule)

\* as today, but subscribing the chat as well
todayAndSubscribe(ok) ==
    /\ scheduler = "started"
    /\ todayReply' = [day |-> day, text |-> TodayText, ok |-> ok]
    /\ \E c \in Chats : subsFile' \in save_subscriber(subsFile, c)
    /\ UNCHANGED << schedule, clockVars, scheduler, nextRun, jobVars,
                    lastStart, everStarted, coverFrom, firedToday, fmtOut >>

\* ok = FALSE is reply_text raising
today(ok) ==
    /\ scheduler = "started"
    /\ todayReply' = [day |-> day, text |-> TodayText, ok |-> ok]
    /\ UNCHANGED << fileVars, clockVars, scheduler, nextRun, jobVars,
                    lastStart, everStarted, coverFrom, firedToday, fmtOut >>

-----------------------------------------------------------------------------

Next ==
    \/ post_init
    \/ CronFire
    \/ ClockReaches0800
    \/ Midnight
    \/ \E c \in Chats, ok \in BOOLEAN : JobSend(c, ok)
    \/ \E c \in Chats : start(c)
    \/ \E ok \in BOOLEAN : today(ok)

Spec == Init /\ [][Next]_vars

-----------------------------------------------------------------------------
(* The formatter on its own: today's schedule text is typed in one          *)
(* character at a time (up to MaxLen characters on a Monday, up to ShortLen *)
(* on the other weekdays), then get_schedule_message_for_today runs on it.  *)

TodayRu == DAYS_MAPPING[DayNameEn(day)]

NoSchedule == [k \in {} |-> << >>]

InitFmt ==
    /\ day \in 0 .. DaysPerWeek - 1
    /\ schedule \in { NoSchedule, [k \in {TodayRu} |-> << >>] }
    /\ fmtOut = NoText
    /\ subsFile = MissingFile
    /\ phase = "before"
    /\ scheduler = "none"
    /\ nextRun = -1
    /\ JobIdle
    /\ todayReply = NoReply
    /\ lastStart = NoStart
    /\ everStarted = {}
    /\ coverFrom = -1
    /\ firedToday = 0

fmtFrame ==
    UNCHANGED << subsFile, phase, scheduler, nextRun, jobVars, cmdVars,
                 coverFrom, firedToday >>

TypeChar(ch) ==
    /\ fmtOut = NoText
    /\ TodayRu \in DOMAIN schedule
    /\ Len(schedule[TodayRu]) < (IF day = 0 THEN MaxLen ELSE ShortLen)
    /\ schedule' = [schedule EXCEPT ![TodayRu] = Append(@, ch)]
    /\ UNCHANGED << day, fmtOut >>
    /\ fmtFrame

Format ==
    /\ fmtOut = NoText
    /\ fmtOut' = get_schedule_message_for_today(day, schedule)
    /\ UNCHANGED << day, schedule >>
    /\ fmtFrame

NextFmt ==
    \/ \E ch \in Alphabet : TypeChar(ch)
    \/ Format

SpecFmt == InitFmt /\ [][NextFmt]_vars

-----------------------------------------------------------------------------
(* Properties *)

Attempted == { c \in Chats : attempts[c] > 0 }

\* C1: in a run of send_schedule_job every identifier of the loaded set gets
\* exactly one send attempt (none before the loop reaches it, none for a chat
\* outside the set), the chats with a log line are exactly those whose send
\* failed, and a failure never ends the run: while it is sending a recipient
\* is still pending, and it is done only when none is.
C1_BatchCompletes ==
    jobPc # "idle" =>
        /\ jobPc \in {"sending", "done"}
        /\ pending \subseteq subscribers
        /\ \A c \in Chats :
              attempts[c] = IF c \in subscribers \ pending THEN 1 ELSE 0
        /\ logged = { c \in subscribers \ pending : delivered[c] = NoText }
        /\ (jobPc = "sending") = (pending # {})

C1_Witness ==
    /\ jobPc = "done"
    /\ Cardinality(subscribers) >= 2
    /\ logged # {}
    /\ logged # subscribers

\* C2: after the /start of a chat whose identifier was not on file, the file
\* is a list holding that identifier and every identifier it held before.
C2_NewSubscriptionPersisted ==
    (lastStart.chat # 0 /\ lastStart.chat \notin FileIds(lastStart.before)) =>
        /\ subsFile.kind = "list"
        /\ FileIds(lastStart.before) \cup {lastStart.chat}
               \subseteq FileIds(subsFile)

C2_Witness ==
    /\ lastStart.chat # 0
    /\ lastStart.chat \notin FileIds(lastStart.before)
    /\ FileIds(lastStart.before) # {}
    /\ lastStart.chat \in FileIds(subsFile)

C4_SameText ==
    /\ (todayReply.day >= 0 /\ jobPc # "idle"
           /\ Weekday(todayReply.day) = Weekday(jobDay))
          => todayReply.text = message
    /\ \A c \in Chats : delivered[c] # NoText => delivered[c] = message

C4_Witness ==
    /\ jobPc = "done"
    /\ todayReply.ok
    /\ todayReply.day = jobDay
    /\ day > jobDay
    /\ Cardinality({ c \in Chats : delivered[c] # NoText }) >= 2
    /\ "EM_DASH" \in Range(message)

-----------------------------------------------------------------------------
(* What the formatter is to produce, stated on positions of the text *)

MinOf(S) == CHOOSE i \in S : \A j \in S : i <= j
MaxOf(S) == CHOOSE i \in S : \A j \in S : j <= i

Trimmed(e) ==
    LET ink == { i \in 1 .. Len(e) : e[i] # " " }
    IN  IF ink = {} THEN << >> ELSE SubSeq(e, MinOf(ink), MaxOf(ink))

\* the k-th comma-separated entry of txt
EntryAt(txt, k) ==
    LET commas == { i \in 1 .. Len(txt) : txt[i] = "," }
        nth(n) == CHOOSE i \in commas :
                      Cardinality({ j \in commas : j < i }) = n - 1
        lo == IF k = 1 THEN 0 ELSE nth(k - 1)
        hi == IF k = Cardinality(commas) + 1 THEN Len(txt) + 1 ELSE nth(k)
    IN  SubSeq(txt, lo + 1, hi - 1)

EntryCount(txt) == Cardinality({ i \in 1 .. Len(txt) : txt[i] = "," }) + 1

\* the line shown for a trimmed entry
ExpectedLine(e) ==
    LET at == { i \in 1 .. Len(e) - 2 :
                  e[i] = " " /\ e[i + 1] = "-" /\ e[i + 2] = " " }
    IN  IF at # {} /\ \A j \in at : j < MinOf(at) + 3
        THEN SubSeq(e, MinOf(at) + 3, Len(e)) \o << " ", "EM_DASH", " " >>
                 \o SubSeq(e, 1, MinOf(at) - 1)
        ELSE e

RECURSIVE ExpectedLines(_, _)
ExpectedLines(txt, k) ==
    IF k > EntryCount(txt) THEN << >>
    ELSE ExpectedLine(Trimmed(EntryAt(txt, k))) \o << "\n" >>
             \o ExpectedLines(txt, k + 1)

ExpectedHeader ==
    << "Segodnya ",
       << "Ponedelnik", "Vtornik", "Sreda", "Chetverg", "Pyatnitsa",
          "Subbota", "Voskresenye" >>[(day % 7) + 1],
       ":", "\n" >>

TodayRaw == IF TodayRu \in DOMAIN schedule THEN schedule[TodayRu] ELSE << >>

\* C5: the output is the header of today's weekday followed by one line per
\* comma-separated entry, in input order: an entry that splits on " - " into
\* exactly two parts is shown as 'time EM_DASH name', any other entry as it
\* is after trimming; an absent weekday or an empty text gives the header
\* and the one line "Net zanyatij.".
C5_Format ==
    fmtOut # NoText =>
        fmtOut = IF TodayRaw = << >>
                 THEN ExpectedHeader \o << "Net zanyatij." >>
                 ELSE ExpectedHeader \o ExpectedLines(TodayRaw, 1)

C5_Witness ==
    /\ fmtOut # NoText
    /\ "EM_DASH" \in Range(fmtOut)
    /\ "," \in Range(TodayRaw)

-----------------------------------------------------------------------------

\* C6: only /start writes: a step that changes the subscriber file is a
\* /start (so /today and the job's steps, failed sends included, leave it as
\* it is), and no step changes the schedule file.
C6_OnlyStartWrites ==
    [][ /\ (subsFile' # subsFile => \E c \in Chats : start(c))
        /\ schedule' = schedule ]_vars

C6_Witness ==
    /\ todayReply.day >= 0
    /\ ~ todayReply.ok
    /\ jobPc = "done"
    /\ logged # {}
    /\ subsFile = atFire.file

\* C7: a /start from a chat already on file leaves the file as it was; no
\* chat is on file more than once, a chat that issued /start is on it once,
\* and a finished run has sent one message to each chat subscribed before it.
C7_StartIdempotent ==
    /\ lastStart.chat \in FileIds(lastStart.before)
          => subsFile = lastStart.before
    /\ \A c \in Chats :
          LET n == Cardinality({ i \in 1 .. Len(subsFile.ids) :
                                   subsFile.ids[i] = c })
          IN  n = IF c \in everStarted THEN 1 ELSE 0
    /\ jobPc = "done" => \A c \in atFire.started : attempts[c] = 1

C7_Witness ==
    /\ lastStart.chat \in FileIds(lastStart.before)
    /\ jobPc = "done"
    /\ attempts[lastStart.chat] = 1

C9_StoreOnlyGrows ==
    [][ FileIds(subsFile) \subseteq FileIds(subsFile') ]_vars

C9_Witness ==
    /\ Cardinality(FileIds(subsFile)) >= 2
    /\ lastStart.chat # 0
    /\ todayReply.day >= 0
    /\ jobPc = "done"
    /\ logged # {}

\* C10: a run sends only to chats on file when it began and, once done, has
\* sent to all of them; those are exactly the chats whose /start completed
\* before the run began.
C10_FreshRead ==
    jobPc # "idle" =>
        /\ Attempted \subseteq FileIds(atFire.file)
        /\ jobPc = "done" => Attempted = FileIds(atFire.file)
        /\ FileIds(atFire.file) = atFire.started

C10_Witness ==
    /\ jobPc = "done"
    /\ lastStart.chat # 0
    /\ lastStart.chat \notin FileIds(lastStart.before)
    /\ attempts[lastStart.chat] = 1
    /\ everStarted # Chats

====
